---- MODULE Spec2Model ----
(***************************************************************************)
(* Model of the HOAMX contact API (src/main.py): the lazily initialized    *)
(* SQLAlchemy engine, the get_db session dependency, and the three         *)
(* endpoints GET /health, GET /health/db and POST /api/contact.            *)
(*                                                                         *)
(* Text is modelled as a sequence of one-character strings so that         *)
(* str.strip and str.split are computed rather than assumed.  An optional  *)
(* value is None (the empty tuple) or Some(s) (a one-element tuple).       *)
(***************************************************************************)
EXTENDS Naturals, Sequences, FiniteSets, TLC

\* Number of HTTP requests the process receives in one behaviour.
NumReq == 2

Req == 1..NumReq

None == <<>>
Some(s) == <<s>>

\* ------------------------------------------------------------------------
\* Pure helpers: Python string operations
\* ------------------------------------------------------------------------

IsSpace(c) == c = " "

RECURSIVE lstrip(_)
lstrip(s) == IF s = <<>> THEN s
             ELSE IF IsSpace(Head(s)) THEN lstrip(Tail(s)) ELSE s

RECURSIVE rstrip(_)
rstrip(s) == IF s = <<>> THEN s
             ELSE IF IsSpace(s[Len(s)]) THEN rstrip(SubSeq(s, 1, Len(s) - 1)) ELSE s

\* str.strip(): whitespace removed at both ends
strip(s) == rstrip(lstrip(s))

\* str.split(c) for a one-character separator
RECURSIVE split(_, _)
split(s, c) ==
    IF \A i \in 1..Len(s) : s[i] # c THEN <<s>>
    ELSE LET i == CHOOSE k \in 1..Len(s) :
                      s[k] = c /\ \A j \in 1..(k - 1) : s[j] # c
         IN  <<SubSeq(s, 1, i - 1)>> \o split(SubSeq(s, i + 1, Len(s)), c)

Count(s, c) == Cardinality({i \in 1..Len(s) : s[i] = c})

\* ------------------------------------------------------------------------
\* Configuration: DATABASE_URL as read from the environment at import
\* ------------------------------------------------------------------------

UrlAbsent   == <<>>
UrlHostPort == <<"p", ":", "/", "/", "u", "@", "h", ":", "5", "/", "d">>
UrlNoHost   == <<"s", ":", "/", "/", "/", "d">>
UrlBad      == <<"x">>

UrlForms == {UrlAbsent, UrlHostPort, UrlNoHost, UrlBad}

\* create_engine parses the URL (it does not connect): it raises unless the
\* text has the form  dialect://...
UrlParses(url) ==
    \E i \in 2..Len(url) :
        /\ i + 2 <= Len(url)
        /\ url[i] = ":" /\ url[i + 1] = "/" /\ url[i + 2] = "/"

\* str(exc) of the exceptions raised below the application: by create_engine
\* on a URL it cannot parse, by a statement when the connection fails, and by
\* the INSERT when the table is missing.
ArgumentError    == "Could not parse SQLAlchemy URL"
OperationalError == "could not connect to server"
ProgrammingError == "relation contact_messages does not exist"

Unknown  == <<"u", "n", "k", "n", "o", "w", "n">>
PublicIp == <<"9">>

\* ------------------------------------------------------------------------
\* Request bodies and the ContactPayload schema
\* ------------------------------------------------------------------------

Jane   == <<"J">>
Email  == <<"a", "@", "b", ".", "c">>
Hello  == <<"H">>

\* The spec's example: association blank, role null.
PJane == [name |-> Some(Jane), email |-> Some(Email),
          association |-> Some(<<" ", " ">>), role |-> None,
          message |-> Some(Hello)]
\* Every field padded with whitespace, both optional fields given.
PPadded == [name |-> Some(<<" ", "J", " ">>),
            email |-> Some(<<" ", "a", "@", "b", ".", "c">>),
            association |-> Some(<<" ", "A", " ">>), role |-> Some(<<"R">>),
            message |-> Some(<<"H", " ">>)]
PNoName    == [PJane EXCEPT !.name = None]
PNoEmail   == [PJane EXCEPT !.email = None]
PNoMessage == [PJane EXCEPT !.message = None]
PBadEmail  == [PJane EXCEPT !.email = Some(<<"n", "o", "t">>)]

Payloads == {PJane, PPadded, PNoName, PNoEmail, PNoMessage, PBadEmail}

\* EmailStr: one "@", a non-empty local part, a dotted domain, no whitespace.
IsEmail(s) ==
    /\ Count(s, "@") = 1
    /\ Count(s, " ") = 0
    /\ LET parts == split(s, "@")
           dom   == parts[2]
       IN  /\ parts[1] # <<>>
           /\ Count(dom, ".") >= 1
           /\ dom # <<>> /\ Head(dom) # "." /\ dom[Len(dom)] # "."

\* EmailStr validation trims the text before checking it and yields the
\* trimmed text as the field's value.
EmailStr(s) == strip(s)

\* ContactPayload: name, email, message are required; association and role
\* default to None.  TRUE iff the body passes validation.
ContactPayload(p) ==
    /\ p.name # None
    /\ p.message # None
    /\ p.email # None
    /\ IsEmail(EmailStr(p.email[1]))

\* (x or "").strip() or None
OrNone(x) ==
    LET s == strip(IF x = None THEN <<>> ELSE x[1])
    IN  IF s = <<>> THEN None ELSE Some(s)

\* The ContactMessage built from a validated payload (lines 179-188); the id
\* is assigned by the database on insert.
ContactMessage(p) ==
    [id          |-> 0,
     name        |-> strip(p.name[1]),
     email       |-> strip(EmailStr(p.email[1])),
     association |-> OrNone(p.association),
     role        |-> OrNone(p.role),
     message     |-> strip(p.message[1]),
     source_page |-> "contact.html"]

\* Mutant of InsertRow: the id is not drawn from the sequence.
InsertRowNoSequence(table, seq, cm) == Append(table, [cm EXCEPT !.id = 1])

\* db.add + db.commit: the row is appended with the next value of the
\* primary key sequence.
InsertRow(table, seq, cm) == Append(table, [cm EXCEPT !.id = seq])

\* ------------------------------------------------------------------------
\* Responses
\* ------------------------------------------------------------------------

\* status, the fixed part of the body, the interpolated exception text ("" if
\* none), the id of a created row (0 if none), and the two diagnostic fields.
Response(status, message, exc, id, to_ip, from_ip) ==
    [status |-> status, message |-> message, exc |-> exc, id |-> id,
     to_ip |-> to_ip, from_ip |-> from_ip]

NoResponse == Response(0, "", "", 0, None, None)

\* DATABASE_URL.split("@")[1].split(":")[0]; raises IndexError without "@"
HasHost(url) == Len(split(url, "@")) >= 2
db_host(url) == split(split(url, "@")[2], ":")[1]

\* `text` is used by health_db (line 128) but is not among the names the
\* module imports from sqlalchemy (lines 12-13): evaluating it raises
\* NameError.
TextImported == FALSE

\* ------------------------------------------------------------------------
\* State
\* ------------------------------------------------------------------------

VARIABLES
    DATABASE_URL,   \* the connection string, fixed at import
    _engine,        \* 0 is None, n is the n-th engine created
    _SessionLocal,  \* 0 is None, e is the sessionmaker bound to engine e
    reachable,      \* the database accepts connections
    tableExists,    \* contact_messages exists in the database
    rows,           \* the rows of contact_messages, in insertion order
    nextId,         \* next value of the primary key sequence
    pc,             \* where each request is
    kind,           \* "health", "health_db" or "contact"
    payload,        \* the body of a POST /api/contact
    session,        \* "none", "open" or "closed": the session get_db made
    resp,           \* the response sent
    created,        \* history: successful create_engine calls
    ensured,        \* history: create_all has completed successfully
    closes,         \* history: db.close() calls per request
    failedAt        \* history: where the request failed, "" if nowhere

vars == <<DATABASE_URL, _engine, _SessionLocal, reachable, tableExists, rows,
          nextId, pc, kind, payload, session, resp, created, ensured, closes,
          failedAt>>

globals == <<_engine, _SessionLocal>>
database == <<tableExists, rows, nextId>>
history == <<created, ensured>>

NoPayload == [name |-> None, email |-> None, association |-> None,
              role |-> None, message |-> None]

Init ==
    /\ DATABASE_URL \in UrlForms
    /\ _engine = 0
    /\ _SessionLocal = 0
    /\ reachable \in BOOLEAN
    /\ tableExists \in BOOLEAN
    /\ rows = <<>>
    /\ nextId = 1
    /\ pc = [r \in Req |-> "idle"]
    /\ kind = [r \in Req |-> ""]
    /\ payload = [r \in Req |-> NoPayload]
    /\ session = [r \in Req |-> "none"]
    /\ resp = [r \in Req |-> NoResponse]
    /\ created = 0
    /\ ensured = FALSE
    /\ closes = [r \in Req |-> 0]
    /\ failedAt = [r \in Req |-> ""]

\* Requests are numbered in order of arrival.
Arrives(r) == pc[r] = "idle" /\ (IF r = 1 THEN TRUE ELSE pc[r - 1] # "idle")

\* The request ends with response q; where is the failure point ("" if none).
Finish(r, q, where, next) ==
    /\ resp' = [resp EXCEPT ![r] = q]
    /\ failedAt' = [failedAt EXCEPT ![r] = where]
    /\ pc' = [pc EXCEPT ![r] = next]

\* ------------------------------------------------------------------------
\* The environment: the database goes away and comes back
\* ------------------------------------------------------------------------

db_down ==
    /\ reachable
    /\ reachable' = FALSE
    /\ UNCHANGED <<DATABASE_URL, globals, database, pc, kind, payload,
                   session, resp, history, closes, failedAt>>

db_up ==
    /\ ~reachable
    /\ reachable' = TRUE
    /\ UNCHANGED <<DATABASE_URL, globals, database, pc, kind, payload,
                   session, resp, history, closes, failedAt>>

\* ------------------------------------------------------------------------
\* GET /health
\* ------------------------------------------------------------------------

\* Mutant of health: the liveness endpoint probes the database.
health_probing(r) ==
    /\ Arrives(r)
    /\ kind' = [kind EXCEPT ![r] = "health"]
    /\ Finish(r, IF reachable THEN Response(200, "ok", "", 0, None, None)
                 ELSE Response(500, "Database health check failed.", "", 0,
                               None, None),
              "", "done")
    /\ UNCHANGED <<DATABASE_URL, globals, reachable, database, payload,
                   session, history, closes>>

health(r) ==
    /\ Arrives(r)
    /\ kind' = [kind EXCEPT ![r] = "health"]
    /\ Finish(r, Response(200, "ok", "", 0, None, None), "", "done")
    /\ UNCHANGED <<DATABASE_URL, globals, reachable, database, payload,
                   session, history, closes>>

\* ------------------------------------------------------------------------
\* Arrival of the two requests that depend on get_db
\* ------------------------------------------------------------------------

get_health_db(r) ==
    /\ Arrives(r)
    /\ kind' = [kind EXCEPT ![r] = "health_db"]
    /\ pc' = [pc EXCEPT ![r] = "init_engine"]
    /\ UNCHANGED <<DATABASE_URL, globals, reachable, database, payload,
                   session, resp, history, closes, failedAt>>

post_contact(r, p) ==
    /\ Arrives(r)
    /\ kind' = [kind EXCEPT ![r] = "contact"]
    /\ payload' = [payload EXCEPT ![r] = p]
    /\ pc' = [pc EXCEPT ![r] = "init_engine"]
    /\ UNCHANGED <<DATABASE_URL, globals, reachable, database, session, resp,
                   history, closes, failedAt>>

\* ------------------------------------------------------------------------
\* init_engine, one step per statement that touches the globals
\* ------------------------------------------------------------------------

InitFailed(e) ==
    Response(500, "Failed to initialize database engine: ", e, 0, None, None)

\* Mutant of init_engine_entry: a missing DATABASE_URL is passed over instead
\* of raised.
init_engine_entry_swallow(e, s, url) ==
    IF e # 0 /\ s # 0 THEN "return"
    ELSE IF url = <<>> THEN "return"
    ELSE "create"

\* Lines 33-38: what the entry of init_engine decides.
init_engine_entry(e, s, url) ==
    IF e # 0 /\ s # 0 THEN "return"
    ELSE IF url = <<>> THEN "raise"
    ELSE "create"

\* Lines 33-38, and get_db's handling of the RuntimeError (lines 54-56).
init_engine(r) ==
    /\ pc[r] = "init_engine"
    /\ LET d == init_engine_entry(_engine, _SessionLocal, DATABASE_URL) IN
         \/ /\ d = "return"
            /\ pc' = [pc EXCEPT ![r] = "get_db"]
            /\ UNCHANGED <<resp, failedAt>>
         \/ /\ d = "raise"
            /\ Finish(r, Response(500,
                          "DATABASE_URL environment variable is not set",
                          "", 0, None, None), "config", "done")
         \/ /\ d = "create"
            /\ pc' = [pc EXCEPT ![r] = "create_engine"]
            /\ UNCHANGED <<resp, failedAt>>
    /\ UNCHANGED <<DATABASE_URL, globals, reachable, database, kind, payload,
                   session, history, closes>>

\* Line 41: _engine = create_engine(DATABASE_URL, pool_pre_ping=True)
create_engine(r) ==
    /\ pc[r] = "create_engine"
    /\ \/ /\ UrlParses(DATABASE_URL)
          /\ _engine' = created + 1
          /\ created' = created + 1
          /\ pc' = [pc EXCEPT ![r] = "sessionmaker"]
          /\ UNCHANGED <<resp, failedAt>>
       \/ /\ ~UrlParses(DATABASE_URL)
          /\ Finish(r, InitFailed(ArgumentError), "init", "done")
          /\ UNCHANGED <<_engine, created>>
    /\ UNCHANGED <<DATABASE_URL, _SessionLocal, reachable, database, kind,
                   payload, session, ensured, closes>>

\* Line 42: _SessionLocal = sessionmaker(..., bind=_engine)
sessionmaker(r) ==
    /\ pc[r] = "sessionmaker"
    /\ _SessionLocal' = _engine
    /\ pc' = [pc EXCEPT ![r] = "create_all"]
    /\ UNCHANGED <<DATABASE_URL, _engine, reachable, database, kind, payload,
                   session, resp, history, closes, failedAt>>

\* Line 45: Base.metadata.create_all(bind=_engine), the first statement that
\* connects; lines 46-48 and 54-56 when it raises.
create_all(r) ==
    /\ pc[r] = "create_all"
    /\ \/ /\ reachable
          /\ tableExists' = TRUE
          /\ ensured' = TRUE
          /\ pc' = [pc EXCEPT ![r] = "get_db"]
          /\ UNCHANGED <<resp, failedAt>>
       \/ /\ ~reachable
          /\ Finish(r, InitFailed(OperationalError), "init", "done")
          /\ UNCHANGED <<tableExists, ensured>>
    /\ UNCHANGED <<DATABASE_URL, globals, reachable, rows, nextId, kind,
                   payload, session, created, closes>>

\* ------------------------------------------------------------------------
\* get_db
\* ------------------------------------------------------------------------

\* Line 58: db = _SessionLocal(); line 60 hands it to the request.
get_db(r) ==
    /\ pc[r] = "get_db"
    /\ session' = [session EXCEPT ![r] = "open"]
    /\ pc' = [pc EXCEPT ![r] = IF kind[r] = "contact" THEN "validate"
                                ELSE "health_db"]
    /\ UNCHANGED <<DATABASE_URL, globals, reachable, database, kind, payload,
                   resp, history, closes, failedAt>>

\* Mutant of get_db_exit: close only after a handler that returned normally
\* (no try/finally around the yield).
get_db_exit_no_finally(sess, raised) == IF raised THEN sess ELSE "closed"

\* Lines 61-62: the session after the generator is finalised; the finally
\* clause runs whether or not the handler raised.
get_db_exit(sess, raised) == "closed"

get_db_finally(r) ==
    /\ pc[r] = "finally"
    /\ session' = [session EXCEPT ![r] = get_db_exit(session[r],
                                                     resp[r].status # 200)]
    /\ closes' = [closes EXCEPT ![r] =
                     IF session'[r] = "closed" /\ session[r] = "open"
                     THEN closes[r] + 1 ELSE closes[r]]
    /\ pc' = [pc EXCEPT ![r] = "done"]
    /\ UNCHANGED <<DATABASE_URL, globals, reachable, database, kind, payload,
                   resp, history, failedAt>>

\* ------------------------------------------------------------------------
\* POST /api/contact
\* ------------------------------------------------------------------------

\* Lines 169-174: the parameters of create_contact.  The db dependency is
\* resolved first; the body is checked against ContactPayload afterwards and
\* a body that fails is answered 422 without the handler being called.
validate(r) ==
    /\ pc[r] = "validate"
    /\ IF ContactPayload(payload[r])
       THEN /\ pc' = [pc EXCEPT ![r] = "create_contact"]
            /\ UNCHANGED <<resp, failedAt>>
       ELSE Finish(r, Response(422, "validation error", "", 0, None, None),
                   "validation", "finally")
    /\ UNCHANGED <<DATABASE_URL, globals, reachable, database, kind, payload,
                   session, history, closes>>

\* Lines 175-203: build the row, add, commit, refresh, answer.
create_contact(r) ==
    /\ pc[r] = "create_contact"
    /\ \/ /\ reachable /\ tableExists
          /\ rows' = InsertRow(rows, nextId, ContactMessage(payload[r]))
          /\ nextId' = nextId + 1
          /\ Finish(r, Response(200, "ok", "", rows'[Len(rows')].id, None, None),
                    "", "finally")
       \/ /\ ~(reachable /\ tableExists)
          /\ Finish(r, Response(500, "Unable to submit message at this time: ",
                                 IF reachable THEN ProgrammingError
                                 ELSE OperationalError,
                                 0, None, None), "insert", "finally")
          /\ UNCHANGED <<rows, nextId>>
    /\ UNCHANGED <<DATABASE_URL, globals, reachable, tableExists, kind,
                   payload, session, history, closes>>

\* ------------------------------------------------------------------------
\* GET /health/db
\* ------------------------------------------------------------------------

\* Lines 126-166.  lookup is whether requests.get answered.
health_db(r) ==
    /\ pc[r] = "health_db"
    /\ \E lookup \in BOOLEAN :
         LET public_ip == IF lookup THEN PublicIp ELSE Unknown IN
         IF TextImported /\ reachable /\ HasHost(DATABASE_URL)
         THEN Finish(r, Response(200, "ok", "", 0,
                                 Some(db_host(DATABASE_URL)), Some(public_ip)),
                     "", "finally")
         ELSE Finish(r, Response(500, "Database health check failed.", "", 0,
                                 Some(IF HasHost(DATABASE_URL)
                                      THEN db_host(DATABASE_URL) ELSE Unknown),
                                 Some(public_ip)),
                     "probe", "finally")
    /\ UNCHANGED <<DATABASE_URL, globals, reachable, database, kind, payload,
                   session, history, closes>>

\* ------------------------------------------------------------------------
\* Specification
\* ------------------------------------------------------------------------

\* The steps of a request once it has arrived.
Step(r) ==
    \/ init_engine(r)
    \/ create_engine(r)
    \/ sessionmaker(r)
    \/ create_all(r)
    \/ get_db(r)
    \/ validate(r)
    \/ create_contact(r)
    \/ health_db(r)
    \/ get_db_finally(r)

Next ==
    \/ db_down
    \/ db_up
    \/ \E r \in Req : health(r)
    \/ \E r \in Req : get_health_db(r)
    \/ \E r \in Req : \E p \in Payloads : post_contact(r, p)
    \/ \E r \in Req : Step(r)

Spec == Init /\ [][Next]_vars

\* The server runs every request it has accepted: the event loop and the
\* worker threads do not starve a request that can take a step.
FairSpec == Spec /\ \A r \in Req : WF_vars(Step(r))

\* ------------------------------------------------------------------------
\* Properties
\* ------------------------------------------------------------------------

Configured == UrlParses(DATABASE_URL)

Done(r) == pc[r] = "done"

\* The row POST /api/contact is to store for payload p, stated field by field.
Stored(row, p) ==
    /\ row.name = strip(p.name[1])
    /\ row.email = strip(p.email[1])
    /\ row.message = strip(p.message[1])
    /\ row.association = (IF p.association = None \/ strip(p.association[1]) = <<>>
                          THEN None ELSE Some(strip(p.association[1])))
    /\ row.role = (IF p.role = None \/ strip(p.role[1]) = <<>>
                   THEN None ELSE Some(strip(p.role[1])))
    /\ row.source_page = "contact.html"

\* C1: a POST /api/contact with a non-empty name, a non-empty message and a
\* valid email, handled while the database is configured and reachable, is
\* answered 200 {ok, id} with id positive, and a row with that id then holds
\* the trimmed values, absent optional fields and source_page contact.html.
C1_ValidSubmissionStored ==
    [][\A r \in Req :
          (/\ pc[r] = "create_contact" /\ pc'[r] # pc[r]
           /\ Configured /\ reachable
           /\ payload[r].name[1] # <<>> /\ payload[r].message[1] # <<>>)
          => /\ resp'[r].status = 200
             /\ resp'[r].id > 0
             /\ \E i \in 1..Len(rows') :
                   /\ rows'[i].id = resp'[r].id
                   /\ Stored(rows'[i], payload[r])]_vars

\* C2: a POST /api/contact whose body lacks name, email or message, or has a
\* malformed email, is answered 422 and changes no row, whatever the state
\* of the configuration, the engine and the database.
C2_InvalidRejected422 ==
    [][\A r \in Req :
          (/\ kind'[r] = "contact" /\ ~ContactPayload(payload'[r])
           /\ pc'[r] # pc[r])
          => /\ rows' = rows
             /\ (pc'[r] = "done" => resp'[r].status = 422)]_vars

\* C3: no error response carries text of the underlying exception: two
\* requests that failed at the same point got the same body.
C3_GenericErrorBody ==
    \A r \in Req :
        (Done(r) /\ resp[r].status = 500) =>
            /\ resp[r].exc = ""
            /\ \A q \in Req :
                  (Done(q) /\ failedAt[q] = failedAt[r])
                  => (resp[q].message = resp[r].message /\ resp[q].exc = resp[r].exc)

\* C4: GET /health/db, once the engine is initialized, answers 200 "ok" when
\* the database is reachable and 500 when it is not, whatever the form of
\* the connection string and the outcome of the IP lookup.
C4_HealthDbFollowsReachability ==
    [][\A r \in Req :
          (pc[r] = "health_db" /\ pc'[r] # pc[r])
          => IF reachable
             THEN resp'[r].status = 200 /\ resp'[r].message = "ok"
             ELSE resp'[r].status = 500]_vars

\* C5: with the connection string absent every POST /api/contact and every
\* GET /health/db ends in a 500, none inserts a row, acquires a session or
\* sets the engine handle, GET /health still answers 200, and the process
\* goes on serving: a request that arrived can be answered and the next one
\* can arrive.
C5_AbsentUrlServerError ==
    DATABASE_URL = UrlAbsent =>
        /\ rows = <<>> /\ _engine = 0 /\ _SessionLocal = 0
        /\ \A r \in Req :
              /\ pc[r] \in {"idle", "init_engine", "done"}
              /\ session[r] = "none"
              /\ Done(r) => resp[r].status = (IF kind[r] = "health" THEN 200 ELSE 500)
              /\ pc[r] = "init_engine" => ENABLED init_engine(r)
              /\ Arrives(r) => /\ ENABLED health(r)
                               /\ ENABLED get_health_db(r)
                               /\ ENABLED post_contact(r, PJane)

C5_Witness ==
    /\ DATABASE_URL = UrlAbsent
    /\ Done(1) /\ kind[1] = "contact" /\ ContactPayload(payload[1])
    /\ Done(2) /\ kind[2] = "health" /\ resp[2].status = 200

\* C6: create_engine succeeds at most once in the life of the process.
C6_EngineCreatedOnce == created <= 1

\* C7: a session that get_db opened is closed exactly once by the time the
\* request ends, on every exit path, and is eventually closed; a request
\* whose initialization failed has no session.
C7_Safe ==
    \A r \in Req :
        /\ Done(r) => /\ session[r] # "open"
                      /\ closes[r] = (IF session[r] = "closed" THEN 1 ELSE 0)
        /\ failedAt[r] \in {"config", "init"} => session[r] = "none"
        /\ pc[r] \in {"validate", "create_contact", "health_db", "finally"}
              => session[r] = "open"

C7_SessionClosedOnce ==
    /\ []C7_Safe
    /\ \A r \in Req : (session[r] = "open") ~> (session[r] = "closed" /\ Done(r))

C7_Witness ==
    \E r \in Req : /\ Done(r) /\ failedAt[r] = "insert"
                   /\ session[r] = "closed" /\ closes[r] = 1

\* C8: every step leaves the table as it was or appends exactly one row, with
\* an id no other row has, for a POST /api/contact answered 200 with that id;
\* rows already present are never changed or removed.
C8_RowsOnlyAppended ==
    [][/\ \/ rows' = rows
          \/ /\ Len(rows') = Len(rows) + 1
             /\ SubSeq(rows', 1, Len(rows)) = rows
             /\ \E r \in Req : /\ pc[r] = "create_contact"
                               /\ resp'[r].status = 200
                               /\ resp'[r].id = rows'[Len(rows')].id
       /\ \A i, j \in 1..Len(rows') : rows'[i].id = rows'[j].id => i = j
       /\ \A r \in Req :
             (pc[r] = "create_contact" /\ resp'[r].status = 200)
             => Len(rows') = Len(rows) + 1]_vars

C8_Witness ==
    /\ Len(rows) = 2
    /\ Done(1) /\ Done(2) /\ payload[1] = payload[2]
    /\ resp[1].status = 200 /\ resp[2].status = 200 /\ resp[1].id # resp[2].id

\* C9: GET /health answers 200 {"status": "ok"} from every state and leaves
\* _engine, _SessionLocal and the table as they were.
C9_HealthStatic ==
    [][\A r \in Req :
          (pc[r] = "idle" /\ kind'[r] = "health")
          => /\ pc'[r] = "done"
             /\ resp'[r] = Response(200, "ok", "", 0, None, None)
             /\ UNCHANGED <<_engine, _SessionLocal, tableExists, rows, nextId,
                            created, ensured>>]_vars

C9_Witness ==
    \E r \in Req : /\ kind[r] = "health" /\ Done(r) /\ resp[r].status = 200
                   /\ ~reachable /\ _engine # 0 /\ ~ensured

\* C10: init_engine returns without raising only if create_all has completed
\* successfully, in that call or an earlier one.
C10_ReturnsOnlyIfTableEnsured ==
    \A r \in Req : pc[r] = "get_db" => ensured

====
